---- MODULE Spec2Model ----
(***************************************************************************)
(* State-machine model of lib/fb/jni/Environment.cpp: the process-wide VM  *)
(* handle g_vm, the per-thread JNIEnv cache g_env, Environment::current()  *)
(* and the JThreadScopeSupport round trip runStdFunction ->                *)
(* (managed) runStdFunction -> runStdFunctionImpl -> closure.              *)
(***************************************************************************)
EXTENDS Integers, FiniteSets, Sequences, TLC

\* ------------------------------------------------------------------ bounds
NumThreads == 2     \* native threads
NumVMs == 2         \* distinct JavaVM* values a caller may pass to registerVM
MaxCalls == 2       \* closure executions in one run (caps the shared counter)
MaxGetEnv == 2      \* successful GetEnv answers per thread (caps the counter)
PtrBits == 4        \* width of a native address (scaled down)

Threads == 1..NumThreads
VMs == 1..NumVMs

\* ------------------------------------------------------------- data values
NullVM == 0                     \* JavaVM* g_vm = nullptr
NullEnv == 0                    \* a null JNIEnv*: the NotAttached result
NoToken == <<>>                 \* no jlong argument in flight; <<j>> carries j
NoClosure == 0                  \* no std::function object at an address

\* The JNIEnv* the VM hands to thread t: one per thread, never another's.
EnvOf(t) == t

JNI_OK == "JNI_OK"
JNI_EDETACHED == "JNI_EDETACHED"

\* ------------------------------------------------------------------- state
VARIABLES
    g_vm,               \* JavaVM* g_vm
    g_env,              \* ThreadLocal<JNIEnv> g_env: slot -> JNIEnv*
    firstVM,            \* the handle of the first registerVM call (NullVM: none)
    attached,           \* the VM's view: is thread t attached
    getEnvOk,           \* the VM's count of GetEnv calls it answered JNI_OK, per thread
    last,               \* the latest call of registerVM or current() and what it returned
    pc,                 \* per thread: position in runStdFunction's round trip
    token,              \* per thread: the jlong the managed frame carries
    scoped,             \* per thread: attached by the managed invocation in progress
    mem,                \* address -> owner of the std::function stored there
    ran,                \* per thread: times the closure of its call in progress ran
    counter,            \* the shared counter the closures increment
    method,             \* static auto method of runStdFunction
    lookups,            \* getStaticMethod lookups performed in the process
    fatal,              \* the fatal failure that ended the process ("none": running)
    dispatchAvailable,  \* the managed class/method can be looked up
    natives,            \* is runStdFunctionImpl bound to the managed stub
    loadStatus          \* what OnLoad reported

vars == <<g_vm, g_env, firstVM, attached, getEnvOk, last, pc, token,
          scoped, mem, ran, counter, method, lookups, fatal, dispatchAvailable,
          natives, loadStatus>>

bridgeVars == <<pc, token, scoped, mem, ran, counter, method, lookups, fatal,
                natives, loadStatus>>

\* ----------------------------------------------------------- ThreadLocal
\* Mutation of SlotOf: g_env is one process-wide JNIEnv* instead of a
\* ThreadLocal, so every thread uses the same slot.
SlotOf_global(t) == 1

\* g_env is a ThreadLocal: thread t reads and writes the slot of t only.
SlotOf(t) == t

Slots == Threads

\* g_env->get()
CacheLookup(t) == g_env[SlotOf(t)]

\* The process runs until a fatal failure ends it (spec 7).
Running == fatal = "none"

\* ------------------------------------------------------------------- the VM
\* JavaVM::GetEnv on thread t: a query. rc and *env as the VM sets them; the
\* attachment after the call is the attachment before it.
VmGetEnv(t) ==
    IF attached[t]
    THEN [rc |-> JNI_OK, env |-> EnvOf(t), att |-> TRUE]
    ELSE [rc |-> JNI_EDETACHED, env |-> NullEnv, att |-> FALSE]

\* Mutation of ResolveCall: the handle is obtained with AttachCurrentThread,
\* which attaches an unattached thread, instead of the GetEnv query.
ResolveCall_attach(t) == [rc |-> JNI_OK, env |-> EnvOf(t), att |-> TRUE]

\* The VM call current() makes to resolve the handle: g_vm->GetEnv(&env, ...).
ResolveCall(t) == VmGetEnv(t)

\* Mutation of NeedsResolve: the test of the cached env is dropped, so every
\* call with a registered VM queries it.
NeedsResolve_always(env) == g_vm # NullVM

\* Mutation of NeedsResolve: the null test of the cached env is inverted, so an
\* empty slot is never resolved.
NeedsResolve_inverted(env) == env # NullEnv /\ g_vm # NullVM

\* Mutation of NeedsResolve: the test of g_vm is dropped, so an empty slot is
\* resolved whether or not a VM handle is registered.
NeedsResolve_noVmTest(env) == env = NullEnv

\* (env == nullptr) && (g_vm != nullptr)
NeedsResolve(env) == env = NullEnv /\ g_vm # NullVM

\* g_vm->GetEnv(...) != JNI_OK
ResolveFailed(r) == r.rc # JNI_OK

\* ------------------------------------------------------------- addresses
\* Mutation of AddrOfFunc: the closure is kept in one static std::function
\* shared by all calls instead of the caller's own object.
AddrOfFunc_static(t) == 2^(PtrBits - 2)

\* &func: the address of the caller-owned std::function of thread t's call.
\* Each thread's frame lies in its own stack.
StackStride == 2^(PtrBits - 2)

AddrOfFunc(t) == t * StackStride

FuncAddrs == {AddrOfFunc(t) : t \in Threads}

\* reinterpret_cast<jlong>(&func): the address read as a signed integer of the
\* width of jlong (here the width of an address).
JlongBits == PtrBits

ToJlong(a) == IF a >= 2^(JlongBits - 1) THEN a - 2^JlongBits ELSE a

\* reinterpret_cast<std::function<void()>*>(ptr): the jlong read as an address.
FromJlong(j) == j % 2^PtrBits

\* The observation of one API call: op "current" on thread t returned env
\* (logged: it wrote the diagnostic; queried: it called GetEnv; inClosure: it
\* was called from a closure); op "registerVM" ended with outcome; op
\* "runStdFunction" on thread t left by the exception outcome.
NoCall ==
    [op |-> "none", t |-> 0, env |-> NullEnv, logged |-> FALSE,
     queried |-> FALSE, inClosure |-> FALSE, outcome |-> "none"]

Init ==
    /\ g_vm = NullVM
    /\ g_env = [s \in Slots |-> NullEnv]
    /\ firstVM = NullVM
    /\ attached \in [Threads -> BOOLEAN]
    /\ getEnvOk = [t \in Threads |-> 0]
    /\ last = NoCall
    /\ pc = [t \in Threads |-> "idle"]
    /\ token = [t \in Threads |-> NoToken]
    /\ scoped = [t \in Threads |-> FALSE]
    /\ mem = [a \in FuncAddrs |-> NoClosure]
    /\ ran = [t \in Threads |-> 0]
    /\ counter = 0
    /\ method = "unresolved"
    /\ lookups = 0
    /\ fatal = "none"
    /\ dispatchAvailable \in BOOLEAN
    /\ natives = "unbound"
    /\ loadStatus = "none"

\* ------------------------------------------------------ Environment::current
\* Mutation of OnResolveFailure: the failure is remembered in the slot as an
\* invalid handle, so that the thread is not asked about again.
OnResolveFailure_cached(t, r) ==
    [env |-> r.env, slot |-> -1, logged |-> TRUE, queried |-> TRUE,
     ok |-> FALSE, att |-> r.att]

\* GetEnv failed: FBLOGE(...) is executed; env is what GetEnv left in it; the
\* slot is not written.
OnResolveFailure(t, r) ==
    [env |-> r.env, slot |-> CacheLookup(t), logged |-> TRUE, queried |-> TRUE,
     ok |-> FALSE, att |-> r.att]

\* GetEnv succeeded: the resolved handle is stored in the caller's slot and
\* returned (spec 4.1, step 4).
OnResolveSuccess(t, r) ==
    [env |-> r.env, slot |-> r.env, logged |-> FALSE, queried |-> TRUE,
     ok |-> TRUE, att |-> r.att]

\* Mutation of OnNoResolve: a cached handle of a thread that is no longer
\* attached is dropped, and the call returns null.
OnNoResolve_revalidate(t, env) ==
    [env |-> IF attached[t] THEN env ELSE NullEnv,
     slot |-> IF attached[t] THEN CacheLookup(t) ELSE NullEnv,
     logged |-> FALSE, queried |-> FALSE, ok |-> FALSE, att |-> attached[t]]

\* A cache hit, or no VM registered: env is returned as looked up, no VM call.
OnNoResolve(t, env) ==
    [env |-> env, slot |-> CacheLookup(t), logged |-> FALSE, queried |-> FALSE,
     ok |-> FALSE, att |-> attached[t]]

\* What one call of current() on thread t does in the present state.
CurrentOutcome(t) ==
    LET env == CacheLookup(t)
    IN  IF NeedsResolve(env)
        THEN LET r == ResolveCall(t)
             IN  IF ResolveFailed(r)
                 THEN OnResolveFailure(t, r)
                 ELSE OnResolveSuccess(t, r)
        ELSE OnNoResolve(t, env)

\* current() called by thread t, from top level or from inside its closure.
Current(t) ==
    /\ Running
    /\ pc[t] \in {"idle", "closure"}
    /\ LET o == CurrentOutcome(t)
       IN  /\ o.ok => getEnvOk[t] < MaxGetEnv
           /\ g_env' = [g_env EXCEPT ![SlotOf(t)] = o.slot]
           /\ attached' = [attached EXCEPT ![t] = o.att]
           /\ getEnvOk' = [getEnvOk EXCEPT ![t] = IF o.ok THEN @ + 1 ELSE @]
           /\ last' = [op |-> "current", t |-> t, env |-> o.env,
                       logged |-> o.logged, queried |-> o.queried,
                       inClosure |-> (pc[t] = "closure"),
                       outcome |-> "none"]
    /\ UNCHANGED <<g_vm, firstVM, dispatchAvailable>>
    /\ UNCHANGED bridgeVars

\* ------------------------------------------------------------- registerVM
\* Mutation of RegisterOutcome: every call stores its handle.
RegisterOutcome_overwrite(h) == [vm |-> h, outcome |-> "ok"]

\* Mutation of RegisterOutcome: a conflicting handle is ignored without being
\* flagged.
RegisterOutcome_silent(h) ==
    [vm |-> IF g_vm = NullVM THEN h ELSE g_vm, outcome |-> "ok"]

\* registerVM(h): publishes the handle once; the same handle again is a
\* no-op; a different handle is flagged DoubleRegistration and not stored.
RegisterOutcome(h) ==
    IF g_vm = NullVM THEN [vm |-> h, outcome |-> "ok"]
    ELSE IF g_vm = h THEN [vm |-> g_vm, outcome |-> "ok"]
    ELSE [vm |-> g_vm, outcome |-> "DoubleRegistration"]

RegisterVM(h) ==
    /\ Running
    /\ g_vm' = RegisterOutcome(h).vm
    /\ last' = [NoCall EXCEPT !.op = "registerVM",
                               !.outcome = RegisterOutcome(h).outcome]
    /\ firstVM' = IF firstVM = NullVM THEN h ELSE firstVM
    /\ UNCHANGED <<g_env, attached, getEnvOk, dispatchAvailable>>
    /\ UNCHANGED bridgeVars

\* ------------------------------------------- the thread-scope collaborator
\* AttachCurrentThread / DetachCurrentThread by the external collaborator, on
\* a thread that is not inside a round trip. Detach does not touch g_env.
AttachThread(t) ==
    /\ Running
    /\ pc[t] = "idle"
    /\ ~attached[t]
    /\ attached' = [attached EXCEPT ![t] = TRUE]
    /\ UNCHANGED <<g_vm, g_env, firstVM, getEnvOk, last, dispatchAvailable>>
    /\ UNCHANGED bridgeVars

DetachThread(t) ==
    /\ Running
    /\ pc[t] = "idle"
    /\ attached[t]
    /\ attached' = [attached EXCEPT ![t] = FALSE]
    /\ UNCHANGED <<g_vm, g_env, firstVM, getEnvOk, last, dispatchAvailable>>
    /\ UNCHANGED bridgeVars

\* ------------------------------------------------------ JThreadScopeSupport
\* *ptr: the closure a dereference of address a reaches. An address holding no
\* live std::function is a dangling pointer: any closure may be reached.
Deref(a) ==
    IF a \in DOMAIN mem /\ mem[a] # NoClosure THEN {mem[a]} ELSE Threads

\* Calls entered whose closure has not run yet.
Pending == {t \in Threads : pc[t] \in {"resolve", "dispatch", "managed", "impl"}}

\* The observation of a runStdFunction call of thread t that left by exception.
Thrown(t, what) == [NoCall EXCEPT !.op = "runStdFunction", !.t = t, !.outcome = what]

\* Mutation of StaticInitOpen: method is a plain static assigned without the
\* initialisation guard, so a thread may start the lookup while another is
\* still performing it.
StaticInitOpen_unguarded == method \in {"unresolved", "resolving"}

\* static auto method = ...: the initialisation guard of a function-local
\* static lets one thread in when the static is not initialised; a thread
\* arriving while another initialises waits.
StaticInitOpen == method = "unresolved"

\* runStdFunction(std::function<void()>&& func) entered by thread t: func is
\* the caller's object, alive for the duration of the call. The thread passes
\* the initialised static, or takes the guard and goes to look the method up.
RunStdFunction(t) ==
    /\ Running
    /\ pc[t] = "idle"
    /\ counter + Cardinality(Pending) < MaxCalls
    /\ \/ /\ method = "resolved"
          /\ pc' = [pc EXCEPT ![t] = "dispatch"]
          /\ method' = method
       \/ /\ StaticInitOpen
          /\ pc' = [pc EXCEPT ![t] = "resolve"]
          /\ method' = "resolving"
    /\ mem' = [mem EXCEPT ![AddrOfFunc(t)] = t]
    /\ UNCHANGED <<g_vm, g_env, firstVM, attached, getEnvOk, last, token,
                   scoped, ran, counter, lookups, fatal, dispatchAvailable,
                   natives, loadStatus>>

\* Mutation of LookupFailed: the failed lookup throws an exception that leaves
\* runStdFunction; the static stays uninitialised and the process goes on.
LookupFailed_throws(t) ==
    /\ method' = "unresolved"
    /\ pc' = [pc EXCEPT ![t] = "idle"]
    /\ mem' = [mem EXCEPT ![AddrOfFunc(t)] = NoClosure]
    /\ last' = Thrown(t, "WiringFailure")
    /\ fatal' = fatal

\* javaClassStatic()->getStaticMethod(...) finds no such class or method: a
\* WiringFailure, fatal at first use (spec 4.2, 7): the process ends there.
LookupFailed(t) ==
    /\ fatal' = "WiringFailure"
    /\ UNCHANGED <<method, pc, mem, last>>

\* javaClassStatic()->getStaticMethod<void(jlong)>("runStdFunction"), by the
\* thread that holds the initialisation guard.
ResolveMethod(t) ==
    /\ Running
    /\ pc[t] = "resolve"
    /\ lookups' = lookups + 1
    /\ IF dispatchAvailable
       THEN /\ method' = "resolved"
            /\ pc' = [pc EXCEPT ![t] = "dispatch"]
            /\ UNCHANGED <<mem, last, fatal>>
       ELSE LookupFailed(t)
    /\ UNCHANGED <<g_vm, g_env, firstVM, attached, getEnvOk, token, scoped, ran,
                   counter, dispatchAvailable, natives, loadStatus>>

\* Mutation of InvokeManaged: the closure is handed to the managed side and
\* the call returns without waiting for it.
InvokeManaged_async(t) ==
    /\ Running
    /\ pc[t] = "dispatch"
    /\ pc' = [pc EXCEPT ![t] = "idle"]
    /\ mem' = [mem EXCEPT ![AddrOfFunc(t)] = NoClosure]
    /\ UNCHANGED <<g_vm, g_env, firstVM, attached, getEnvOk, last, token,
                   scoped, ran, counter, method, lookups, fatal,
                   dispatchAvailable, natives, loadStatus>>

\* method(javaClassStatic(), reinterpret_cast<jlong>(&func)): the managed
\* static method is entered on the calling thread, carrying the token; the
\* invocation attaches the thread for its duration if it was not attached.
InvokeManaged(t) ==
    /\ Running
    /\ pc[t] = "dispatch"
    /\ pc' = [pc EXCEPT ![t] = "managed"]
    /\ token' = [token EXCEPT ![t] = <<ToJlong(AddrOfFunc(t))>>]
    /\ scoped' = [scoped EXCEPT ![t] = ~attached[t]]
    /\ attached' = [attached EXCEPT ![t] = TRUE]
    /\ UNCHANGED <<g_vm, g_env, firstVM, getEnvOk, last, mem, ran,
                   counter, method, lookups, fatal, dispatchAvailable, natives, loadStatus>>

\* The managed invocation of thread t ends and runStdFunction leaves: the
\* managed frame and its token go, the caller's closure object is no longer
\* guaranteed alive, and an attachment the invocation made is either torn
\* down (detach) or kept: the VM's choice.
LeaveRoundTrip(t, detach) ==
    /\ attached' = [attached EXCEPT ![t] = IF scoped[t] /\ detach THEN FALSE ELSE @]
    /\ pc' = [pc EXCEPT ![t] = "idle"]
    /\ token' = [token EXCEPT ![t] = NoToken]
    /\ scoped' = [scoped EXCEPT ![t] = FALSE]
    /\ mem' = [mem EXCEPT ![AddrOfFunc(t)] = NoClosure]
    /\ ran' = [ran EXCEPT ![t] = 0]

\* The managed method calls its native stub runStdFunctionImpl(ptr) with the
\* token it was given; an unbound stub makes the managed call throw, and the
\* exception leaves runStdFunction.
NativeReentry(t) ==
    /\ Running
    /\ pc[t] = "managed"
    /\ IF natives = "bound"
       THEN /\ pc' = [pc EXCEPT ![t] = "impl"]
            /\ UNCHANGED <<attached, token, scoped, mem, ran, last>>
       ELSE /\ \E detach \in BOOLEAN : LeaveRoundTrip(t, detach)
            /\ last' = Thrown(t, "UnsatisfiedLink")
    /\ UNCHANGED <<g_vm, g_env, firstVM, getEnvOk, counter, method, lookups,
                   fatal, dispatchAvailable, natives, loadStatus>>

\* Mutation of RunStdFunctionImpl: the token is decoded but the closure is not
\* called.
RunStdFunctionImpl_skip(t) ==
    /\ pc[t] = "impl"
    /\ pc' = [pc EXCEPT ![t] = "closure"]
    /\ UNCHANGED <<g_vm, g_env, firstVM, attached, getEnvOk, last,
                   token, scoped, mem, ran, counter, method, lookups, fatal, dispatchAvailable, natives, loadStatus>>

\* Mutation of RunStdFunctionImpl: the closure is called twice.
RunStdFunctionImpl_twice(t) ==
    /\ pc[t] = "impl"
    /\ \E o \in Deref(FromJlong(token[t][1])) :
          ran' = [ran EXCEPT ![o] = @ + 2]
    /\ counter' = counter + 2
    /\ pc' = [pc EXCEPT ![t] = "closure"]
    /\ UNCHANGED <<g_vm, g_env, firstVM, attached, getEnvOk, last,
                   token, scoped, mem, method, lookups, fatal, dispatchAvailable, natives, loadStatus>>

\* runStdFunctionImpl(alias_ref<JClass>, jlong ptr): decode the token and call
\* the closure it points to, on this thread. The closure increments the
\* shared counter.
RunStdFunctionImpl(t) ==
    /\ Running
    /\ pc[t] = "impl"
    /\ \E o \in Deref(FromJlong(token[t][1])) :
          ran' = [ran EXCEPT ![o] = @ + 1]
    /\ counter' = counter + 1
    /\ pc' = [pc EXCEPT ![t] = "closure"]
    /\ UNCHANGED <<g_vm, g_env, firstVM, attached, getEnvOk, last,
                   token, scoped, mem, method, lookups, fatal, dispatchAvailable, natives, loadStatus>>

\* The closure returns into runStdFunctionImpl, which returns into the
\* managed method, which returns into runStdFunction, which returns.
RunStdFunctionReturn(t) ==
    /\ Running
    /\ pc[t] = "closure"
    /\ \E detach \in BOOLEAN : LeaveRoundTrip(t, detach)
    /\ UNCHANGED <<g_vm, g_env, firstVM, getEnvOk, last, counter, method,
                   lookups, fatal, dispatchAvailable, natives, loadStatus>>

\* registerNatives({makeNativeMethod("runStdFunctionImpl", ...)}): binds the
\* function to the managed stub of that name and signature, or fails when
\* there is none (spec 4.2, native method registration).
RegisterNatives(stubMatches) ==
    IF stubMatches THEN [natives |-> "bound", threw |-> FALSE]
    ELSE [natives |-> natives, threw |-> TRUE]

\* Mutation of LoadReport: the failure of registerNatives is swallowed and the
\* load is reported successful.
LoadReport_swallow(r) == "ok"

\* OnLoad has no handler around registerNatives: its failure leaves OnLoad and
\* the load is rejected.
LoadReport(r) == IF r.threw THEN "rejected" ELSE "ok"

\* JThreadScopeSupport::OnLoad(), once, at module load.
OnLoad ==
    /\ Running
    /\ loadStatus = "none"
    /\ \E stubMatches \in BOOLEAN :
          LET r == RegisterNatives(stubMatches)
          IN  /\ natives' = r.natives
              /\ loadStatus' = LoadReport(r)
    /\ UNCHANGED <<g_vm, g_env, firstVM, attached, getEnvOk, last, pc,
                   token, scoped, mem, ran, counter, method, lookups, fatal,
                   dispatchAvailable>>

\* ------------------------------------------------------------ specification
Next ==
    \/ \E h \in VMs : RegisterVM(h)
    \/ \E t \in Threads : Current(t)
    \/ \E t \in Threads : AttachThread(t)
    \/ \E t \in Threads : DetachThread(t)
    \/ OnLoad
    \/ \E t \in Threads : RunStdFunction(t)
    \/ \E t \in Threads : ResolveMethod(t)
    \/ \E t \in Threads : InvokeManaged(t)
    \/ \E t \in Threads : NativeReentry(t)
    \/ \E t \in Threads : RunStdFunctionImpl(t)
    \/ \E t \in Threads : RunStdFunctionReturn(t)

Spec == Init /\ [][Next]_vars

\* The steps of a call that the calling thread or the VM takes on its own: the
\* lookup, the managed call, the native re-entry, the closure call and, the
\* closure being one that terminates, its return.
RoundTripStep(t) ==
    \/ ResolveMethod(t)
    \/ InvokeManaged(t)
    \/ NativeReentry(t)
    \/ RunStdFunctionImpl(t)
    \/ RunStdFunctionReturn(t)

\* current() called by the closure of thread t's call.
ClosureCallsCurrent(t) == pc[t] = "closure" /\ Current(t)

\* The steps that belong to calls of runStdFunction: module load, the calls
\* themselves, registerVM and the current() calls closures make. What threads
\* do outside a call (top-level current(), the external attach and detach) is
\* left to Spec.
CallNext ==
    \/ \E h \in VMs : RegisterVM(h)
    \/ OnLoad
    \/ \E t \in Threads : RunStdFunction(t)
    \/ \E t \in Threads : ResolveMethod(t)
    \/ \E t \in Threads : InvokeManaged(t)
    \/ \E t \in Threads : NativeReentry(t)
    \/ \E t \in Threads : RunStdFunctionImpl(t)
    \/ \E t \in Threads : ClosureCallsCurrent(t)
    \/ \E t \in Threads : RunStdFunctionReturn(t)

\* The calls with every thread in a call scheduled by the platform, the VM
\* serving the managed call, and closures that terminate.
FairSpec ==
    /\ Init /\ [][CallNext]_vars
    /\ \A t \in Threads : WF_vars(RoundTripStep(t))

\* =================================================================== claims

\* C1: once a VM is registered, current() on a thread the VM reports attached
\* returns a non-null handle, which is the one in the thread's slot after the
\* call; a call that finds the slot filled returns that handle and makes no
\* GetEnv call; a filled slot keeps its handle; and GetEnv resolves a handle
\* for a thread at most once.
C1_CacheHitNoRequery ==
    [][\A t \in Threads :
          /\ (Current(t) /\ g_vm # NullVM /\ attached[t]) =>
                /\ last'.env # NullEnv
                /\ last'.env = CacheLookup(t)'
                /\ CacheLookup(t) # NullEnv =>
                      /\ last'.env = CacheLookup(t)
                      /\ ~last'.queried
                      /\ getEnvOk'[t] = getEnvOk[t]
          /\ CacheLookup(t) # NullEnv => CacheLookup(t)' = CacheLookup(t)
          /\ getEnvOk'[t] <= 1]_vars

\* C1 witness: the latest call was a cache hit on an attached thread with a
\* registered VM, after exactly one resolution.
C1_Witness ==
    /\ last.op = "current" /\ ~last.queried /\ last.env # NullEnv
    /\ g_vm # NullVM /\ attached[last.t] /\ getEnvOk[last.t] = 1

\* C2: current() on a thread that is not attached and has an empty slot
\* returns NotAttached (null) and leaves the thread unattached.
C2_UnattachedIsQueryOnly ==
    [][\A t \in Threads :
          (Current(t) /\ ~attached[t] /\ CacheLookup(t) = NullEnv) =>
              /\ last'.env = NullEnv
              /\ ~attached'[t]]_vars

\* C2 witness: the latest call queried the VM, got NotAttached, and the thread
\* is unattached.
C2_Witness ==
    /\ last.op = "current" /\ last.queried /\ last.env = NullEnv
    /\ g_vm # NullVM /\ ~attached[last.t] /\ CacheLookup(last.t) = NullEnv

\* C3: a runStdFunction call that returns has run its closure exactly once;
\* the closure of thread t's call runs only in t's own step from
\* runStdFunctionImpl into the closure, inside the call; and the shared
\* counter changes only there, by exactly one.
C3_ClosureExactlyOnce ==
    [][/\ \A t \in Threads :
            /\ (pc[t] = "closure" /\ pc'[t] = "idle") => ran[t] = 1
            /\ (ran'[t] # ran[t] /\ ran'[t] # 0) =>
                  /\ ran'[t] = ran[t] + 1
                  /\ pc[t] = "impl" /\ pc'[t] = "closure"
            /\ (pc[t] = "impl" /\ pc'[t] = "closure") => ran'[t] = ran[t] + 1
       /\ counter' # counter =>
            /\ counter' = counter + 1
            /\ \E t \in Threads : pc[t] = "impl" /\ pc'[t] = "closure"]_vars

\* C3 witness: one call has been made, it has returned, and the counter is 1.
C3_Witness ==
    /\ counter = 1
    /\ \A t \in Threads : pc[t] = "idle"
    /\ last.op = "current" /\ last.inClosure
\* The original statement of C4: on a thread whose latest API call was a
\* top-level current() that returned NotAttached and which the managed
\* invocation had to attach, current() called from inside the closure returns
\* a non-null handle.
C4_Original ==
    [][\A t \in Threads :
          (/\ Current(t) /\ pc[t] = "closure" /\ scoped[t]
           /\ last.op = "current" /\ last.t = t /\ ~last.inClosure
           /\ last.env = NullEnv)
          => last'.env # NullEnv]_vars

\* C4 (amended): when a VM handle is registered, current() called from inside
\* the closure run by runStdFunction returns a non-null handle on every
\* thread, whatever its earlier calls returned: the thread is attached while
\* the managed invocation lasts.
C4_InClosureResolves ==
    [][\A t \in Threads :
          (Current(t) /\ pc[t] = "closure" /\ g_vm # NullVM) =>
              /\ last'.env = EnvOf(t)
              /\ attached[t]]_vars

\* C4 witness: inside the closure of a thread that the managed invocation
\* attached, current() has just resolved a handle.
C4_Witness ==
    /\ last.op = "current" /\ last.inClosure /\ last.queried
    /\ last.env # NullEnv
    /\ pc[last.t] = "closure" /\ scoped[last.t]

\* C5 (as stated): after runStdFunction has returned on a thread whose closure
\* called current(), a following top-level current() on that thread, when the
\* thread is no longer attached, returns NotAttached and never a handle.
C5_NoHandleAfterDetach ==
    [][\A t \in Threads :
          (/\ Current(t) /\ pc[t] = "idle"
           /\ last.op = "current" /\ last.t = t /\ last.inClosure
           /\ ~attached[t])
          => last'.env = NullEnv]_vars

\* C6: in every interleaving of runStdFunction calls of distinct threads, the
\* token a thread's managed frame carries decodes to the closure that thread
\* passed; tokens in flight on distinct threads differ; a closure has not run
\* before its thread's native re-entry called it and has run exactly once
\* after.
C6_NoTokenCollision ==
    \A t \in Threads :
        /\ pc[t] \in {"managed", "impl", "closure"} =>
              /\ token[t] # NoToken
              /\ Deref(FromJlong(token[t][1])) = {t}
              /\ \A u \in Threads \ {t} : token[u] # token[t]
        /\ pc[t] \in {"idle", "dispatch", "managed", "impl"} => ran[t] = 0
        /\ pc[t] = "closure" => ran[t] = 1

\* C6 witness: two threads are inside their closures at the same time, each
\* having run its own closure once.
C6_Witness ==
    \E t, u \in Threads :
        /\ t # u /\ pc[t] = "closure" /\ pc[u] = "closure"
        /\ ran[t] = 1 /\ ran[u] = 1 /\ counter = 2

\* C7 (I1): g_vm is unset exactly as long as registerVM was never called, and
\* from then on it is the handle of the first registerVM call.
C7_VmHandleStable == g_vm = firstVM

\* C7 witness: a conflicting registerVM call has been made while a thread was
\* inside its closure, and g_vm still holds the first handle.
C7_Witness ==
    /\ g_vm # NullVM /\ g_vm = firstVM
    /\ last.op = "registerVM" /\ last.outcome = "DoubleRegistration"
    /\ \E t \in Threads : pc[t] = "closure"

\* C8: registerVM called again with the handle already registered changes
\* nothing and ends "ok"; called with a different handle it ends
\* "DoubleRegistration".
C8_DoubleRegistration ==
    [][\A h \in VMs :
          (RegisterVM(h) /\ g_vm # NullVM) =>
              IF h = g_vm
              THEN /\ last'.outcome = "ok"
                   /\ UNCHANGED <<g_vm, g_env, firstVM, attached, getEnvOk, pc,
                                  token, scoped, mem, ran, counter, method,
                                  lookups, fatal, dispatchAvailable, natives,
                                  loadStatus>>
              ELSE last'.outcome = "DoubleRegistration"]_vars

\* C8 witness: the latest registerVM call carried a conflicting handle and
\* was flagged.
C8_Witness ==
    /\ last.op = "registerVM" /\ last.outcome = "DoubleRegistration"
    /\ g_vm # NullVM

\* The steps of one round trip, in order, on one thread.
RoundTripOrder ==
    {<<"idle", "resolve">>, <<"resolve", "dispatch">>, <<"idle", "dispatch">>,
     <<"dispatch", "managed">>, <<"managed", "impl">>, <<"impl", "closure">>,
     <<"closure", "idle">>, <<"managed", "idle">>}

\* A token can be consumed on thread t: its managed frame carries one.
TokenLive(t) == token[t] # NoToken

\* C9 (I3): a token is consumed at most once, by its creating thread's own
\* native re-entry step while the creating call is on the stack; a thread
\* moves through create, managed dispatch, native re-entry, closure, return
\* in that order; and a thread outside a managed invocation holds no token
\* and its closure object is gone once the call has left.
C9_TokenSingleUse ==
    [][\A t \in Threads :
          /\ ran'[t] <= 1
          /\ ran'[t] > ran[t] =>
                /\ pc[t] = "impl" /\ pc'[t] = "closure"
                /\ TokenLive(t) /\ Deref(FromJlong(token[t][1])) = {t}
          /\ pc'[t] # pc[t] => <<pc[t], pc'[t]>> \in RoundTripOrder
          /\ TokenLive(t)' <=> pc'[t] \in {"managed", "impl", "closure"}
          /\ (pc[t] = "managed" /\ pc'[t] = "idle") => natives # "bound"
          /\ pc'[t] = "idle" => mem'[AddrOfFunc(t)] = NoClosure]_vars

\* C9 witness: two calls have consumed their tokens and returned; nothing of
\* them is left.
C9_Witness ==
    /\ counter = 2
    /\ \A t \in Threads :
          pc[t] = "idle" /\ ~TokenLive(t) /\ mem[AddrOfFunc(t)] = NoClosure

\* C10 (I2): a thread's slot is empty or holds the handle the VM resolved for
\* that thread; current() returns null or the caller's own handle; and a
\* current() call of thread t leaves the slot of every other thread as it was.
C10_SlotOwnedByThread ==
    [][/\ \A t \in Threads : CacheLookup(t)' \in {NullEnv, EnvOf(t)}
       /\ last'.op = "current" => last'.env \in {NullEnv, EnvOf(last'.t)}
       /\ \A t \in Threads : Current(t) =>
             \A u \in Threads \ {t} : CacheLookup(u)' = CacheLookup(u)]_vars

\* C10 witness: two threads hold a cached handle each, each its own.
C10_Witness ==
    \E t, u \in Threads :
        /\ t # u /\ CacheLookup(t) = EnvOf(t) /\ CacheLookup(u) = EnvOf(u)
        /\ last.op = "current" /\ last.env = EnvOf(last.t)

\* Threads whose call has passed the static and is on its way to, or in, the
\* managed dispatch.
PastResolve == {t \in Threads : pc[t] \in {"dispatch", "managed", "impl", "closure"}}

\* C11: when the managed dispatch method cannot be resolved, the first call's
\* lookup ends the process with a WiringFailure; no closure is ever run, no
\* call gets past the lookup, the lookup is made once and nothing happens
\* after the failure.
C11_WiringFailureFatal ==
    [][~dispatchAvailable =>
          /\ lookups' <= 1
          /\ lookups' = 1 => fatal' = "WiringFailure"
          /\ counter' = 0 /\ PastResolve' = {}
          /\ fatal # "none" => UNCHANGED vars]_vars

\* C11 witness: the first call's lookup failed and ended the process while
\* another thread could still have called.
C11_Witness ==
    /\ ~dispatchAvailable /\ fatal = "WiringFailure" /\ lookups = 1
    /\ \E t \in Threads : pc[t] = "resolve"
    /\ \E t \in Threads : pc[t] = "idle"

\* C12: the method reference is looked up at most once in the process, by one
\* thread at a time; once resolved it stays resolved, and a call is past the
\* static only when the reference is resolved.
C12_ResolvedOnce ==
    [][/\ lookups' <= 1
       /\ Cardinality({t \in Threads : pc'[t] = "resolve"}) <= 1
       /\ method = "resolved" => method' = "resolved"
       /\ PastResolve' # {} => method' = "resolved" /\ lookups' = 1]_vars

\* C12 witness: all threads are in their first call at the same time, past
\* the static, after one lookup.
C12_Witness ==
    /\ counter = 0 /\ lookups = 1
    /\ \A t \in Threads : pc[t] = "dispatch"

\* C13: every current() call that ends NotAttached (a null handle) has logged
\* the diagnostic, whether the VM query failed or no VM handle was registered.
C13_LogsEveryNotAttached ==
    [][\A t \in Threads :
          (Current(t) /\ last'.env = NullEnv) => last'.logged]_vars

\* C14: current() on a thread with an empty slot and no VM handle registered
\* returns NotAttached with no VM query and leaves the slot, the thread's
\* attachment and the VM's count of served queries as they were; a call
\* queries the VM exactly when the slot is empty and a VM handle is
\* registered.
C14_NoQueryWithoutVM ==
    [][\A t \in Threads :
          Current(t) =>
              /\ last'.queried <=> (CacheLookup(t) = NullEnv /\ g_vm # NullVM)
              /\ (CacheLookup(t) = NullEnv /\ g_vm = NullVM) =>
                    /\ last'.env = NullEnv /\ ~last'.queried
                    /\ UNCHANGED <<g_env, attached, getEnvOk>>]_vars

\* C14 witness: an attached thread called current() before any registerVM and
\* got NotAttached without a query.
C14_Witness ==
    /\ last.op = "current" /\ last.env = NullEnv /\ ~last.queried
    /\ g_vm = NullVM /\ attached[last.t] /\ CacheLookup(last.t) = NullEnv

\* C15: a slot that holds a handle keeps that handle through every step of
\* current, registerVM, runStdFunction and of the external attach and detach;
\* current() on that thread returns the cached handle without a VM query,
\* attached or not.
C15_SlotNeverCleared ==
    [][\A t \in Threads :
          CacheLookup(t) # NullEnv =>
              /\ CacheLookup(t)' = CacheLookup(t)
              /\ Current(t) =>
                    /\ last'.env = CacheLookup(t) /\ ~last'.queried
                    /\ getEnvOk' = getEnvOk]_vars

\* C15 witness: current() on a detached thread has returned the handle cached
\* while the thread was attached, without a query.
C15_Witness ==
    /\ last.op = "current" /\ last.env # NullEnv /\ ~last.queried
    /\ last.env = CacheLookup(last.t)
    /\ ~attached[last.t] /\ pc[last.t] = "idle"

\* The lookup finds the managed method and the native stub is bound.
Wired == dispatchAvailable /\ natives = "bound"

\* C16: a call goes back to its caller only by the return of its closure (or
\* by the exception of an unbound stub, the closure not having started); a
\* thread inside a call can take no step of its own at top level; the only
\* step that ends a running closure is the closure's return; and with a
\* terminating closure and a fair, wired round trip every call returns (a
\* running closure is in a wired round trip).
C16_BlockingCall ==
    /\ [][\A t \in Threads :
             /\ (pc[t] # "idle" /\ pc'[t] = "idle") =>
                   \/ pc[t] = "closure" /\ RunStdFunctionReturn(t)
                   \/ pc[t] = "managed" /\ last' = Thrown(t, "UnsatisfiedLink")
             /\ (pc[t] = "closure" /\ pc'[t] # "closure") => pc'[t] = "idle"
             /\ (pc[t] # "idle" /\ Current(t)) => pc[t] = "closure" /\ last'.inClosure]_vars
    /\ [](\A t \in Threads :
             pc[t] # "idle" =>
                /\ ~ENABLED RunStdFunction(t)
                /\ ~ENABLED AttachThread(t)
                /\ ~ENABLED DetachThread(t))
    /\ \A t \in Threads : (pc[t] # "idle" /\ Wired) ~> (pc[t] = "idle")

\* C16 witness: a call has returned after its closure ran, while another
\* thread's closure is still running.
C16_Witness ==
    \E t, u \in Threads :
       /\ pc[t] = "idle" /\ pc[u] = "closure"
       /\ counter = 2 /\ Wired

\* C17: OnLoad ends with the load reported successful or rejected; a load
\* reported successful has runStdFunctionImpl bound, a rejected one has not,
\* and after a successful load the managed method's call of its native stub
\* reaches runStdFunctionImpl.
C17_LoadBindsOrRejects ==
    [][/\ OnLoad => loadStatus' \in {"ok", "rejected"}
       /\ loadStatus' = "ok" => natives' = "bound"
       /\ loadStatus' = "rejected" => natives' = "unbound"
       /\ \A t \in Threads :
             (NativeReentry(t) /\ loadStatus = "ok") => pc'[t] = "impl"]_vars

\* C17 witness: after a successful load a managed dispatch has reached the
\* native re-entry function.
C17_Witness ==
    /\ loadStatus = "ok"
    /\ \E t \in Threads : pc[t] = "impl"

\* C18 as stated: a NotAttached result leaves the slot empty, and current() on
\* an attached thread with an empty slot queries the VM, returns the thread's
\* handle and caches it.
C18_Original ==
    [][/\ (last'.op = "current" /\ last'.env = NullEnv) =>
             g_env'[SlotOf(last'.t)] = NullEnv
       /\ \A t \in Threads :
             (Current(t) /\ CacheLookup(t) = NullEnv /\ attached[t]) =>
                 /\ last'.queried /\ last'.env = EnvOf(t)
                 /\ CacheLookup(t)' = EnvOf(t)]_vars

\* C18: a NotAttached result leaves the slot empty, and with a VM handle
\* registered current() on an attached thread with an empty slot queries the
\* VM, returns the thread's handle and caches it.
C18_FailureNotCached ==
    [][/\ (last'.op = "current" /\ last'.env = NullEnv) =>
             g_env'[SlotOf(last'.t)] = NullEnv
       /\ \A t \in Threads :
             (Current(t) /\ CacheLookup(t) = NullEnv /\ attached[t]
                         /\ g_vm # NullVM) =>
                 /\ last'.queried /\ last'.env = EnvOf(t)
                 /\ CacheLookup(t)' = EnvOf(t)]_vars

\* C18 witness: the VM reported a thread unattached to its current() call,
\* the slot is empty, and the thread has been attached since.
C18_Witness ==
    /\ last.op = "current" /\ last.env = NullEnv /\ last.queried
    /\ g_vm # NullVM /\ CacheLookup(last.t) = NullEnv
    /\ attached[last.t] /\ pc[last.t] = "idle"

====
